---- MODULE Spec2Model ----
(***************************************************************************)
(* Model of src/requestStatus.ts: the request-state union, the status      *)
(* projector getRequestStatus and the narrowing predicate isRequestStatus. *)
(*                                                                         *)
(* JavaScript values are modelled with their run-time type: a string is a  *)
(* primitive compared by content, an object is a reference into the heap   *)
(* compared by identity.  A call is modelled as what it returns (or        *)
(* throws) together with the heap it leaves behind, so that "pure" and     *)
(* "does not mutate" are properties of the model and not assumptions.      *)
(* Both functions are synchronous: calls made by any number of callers     *)
(* reach the functions as a sequence of whole calls, which is what the     *)
(* behaviours of Spec are.                                                 *)
(***************************************************************************)
EXTENDS Naturals, Sequences, FiniteSets

\* Number of error objects the external collaborator has built.
MaxObjs == 2

\* Number of distinct error messages drawn from MsgPool.
MaxMsgs == 3

\* Error messages: the empty message, a message spelled like the ERROR tag,
\* an ordinary message, and messages spelled like the other tags.
MsgPool == <<"", "error", "timeout", "idle", "success", "pending">>

Messages == {MsgPool[i] : i \in 1..MaxMsgs}

ObjIds == 1..MaxObjs

----------------------------------------------------------------------------
\* JavaScript values and operators

Str(s) == [type |-> "string", str |-> s]

Ref(i) == [type |-> "object", ref |-> i]

Bool(b) == [type |-> "boolean", bool |-> b]

Return(v) == [kind |-> "return", value |-> v]

Throw(e) == [kind |-> "throw", value |-> Str(e)]

\* typeof v
typeof(v) == v.type

\* a === b: same type and same content (strings, booleans) or same
\* reference (objects)
StrictEquals(a, b) == a = b

\* p in v: a TypeError when the right operand is not an object
InOp(h, p, v) ==
    IF v.type = "object"
    THEN Return(Bool(p \in DOMAIN h[v.ref]))
    ELSE Throw("TypeError")

----------------------------------------------------------------------------
\* Types of requestStatus.ts, as the sets of values they denote

RequestStatusEnum ==
    [IDLE |-> Str("idle"), PENDING |-> Str("pending"),
     SUCCESS |-> Str("success"), ERROR |-> Str("error")]

Tags == {RequestStatusEnum[n] : n \in DOMAIN RequestStatusEnum}

UnitStates ==
    {RequestStatusEnum.IDLE, RequestStatusEnum.PENDING, RequestStatusEnum.SUCCESS}

\* { error: string } in heap h
ErrorObjects(h) ==
    {Ref(i) : i \in {j \in DOMAIN h : "error" \in DOMAIN h[j]}}

RequestStatus(h) == UnitStates \cup ErrorObjects(h)

ExtractRequestStatus(h, T) ==
    IF T = RequestStatusEnum.ERROR
    THEN {v \in RequestStatus(h) : v \in ErrorObjects(h)}
    ELSE {T}

----------------------------------------------------------------------------
\* The two functions.  Each yields [out, heap]: the outcome of the call and
\* the heap after it.

\* Mutant: the typeof guard is missing, `in` is applied to every status.
getRequestStatus_noTypeof(h, status) ==
    LET r == InOp(h, "error", status) IN
    [out  |-> IF r.kind = "throw" THEN r
              ELSE IF r.value.bool THEN Return(RequestStatusEnum.ERROR)
              ELSE Return(status),
     heap |-> h]

\* Mutant: the test on typeof is inverted and joined with ||, so that every
\* string is taken for an error.
getRequestStatus_inverted(h, status) ==
    IF typeof(status) # "object"
    THEN [out |-> Return(RequestStatusEnum.ERROR), heap |-> h]
    ELSE LET r == InOp(h, "error", status) IN
         IF r.kind = "throw" THEN [out |-> r, heap |-> h]
         ELSE IF r.value.bool
              THEN [out |-> Return(RequestStatusEnum.ERROR), heap |-> h]
              ELSE [out |-> Return(status), heap |-> h]

\* Mutant: the message is tested for truthiness instead of the presence of
\* the error property.
getRequestStatus_truthy(h, status) ==
    [out  |-> IF typeof(status) = "object"
              THEN IF "error" \in DOMAIN h[status.ref] /\ h[status.ref].error # ""
                   THEN Return(RequestStatusEnum.ERROR)
                   ELSE Return(status)
              ELSE Return(status),
     heap |-> h]

\* Mutant: the error property is consumed (deleted) once it has been seen.
getRequestStatus_consume(h, status) ==
    IF typeof(status) = "object"
    THEN IF "error" \in DOMAIN h[status.ref]
         THEN [out  |-> Return(RequestStatusEnum.ERROR),
               heap |-> [h EXCEPT ![status.ref] =
                            [p \in DOMAIN h[status.ref] \ {"error"} |->
                                h[status.ref][p]]]]
         ELSE [out |-> Return(status), heap |-> h]
    ELSE [out |-> Return(status), heap |-> h]

getRequestStatus(h, status) ==
    IF typeof(status) = "object"
    THEN LET r == InOp(h, "error", status) IN
         IF r.kind = "throw" THEN [out |-> r, heap |-> h]
         ELSE IF r.value.bool
              THEN [out |-> Return(RequestStatusEnum.ERROR), heap |-> h]
              ELSE [out |-> Return(status), heap |-> h]
    ELSE [out |-> Return(status), heap |-> h]

\* Mutant: the state itself is compared with the tag.
isRequestStatus_naive(h, requestStatus, status) ==
    [out |-> Return(Bool(StrictEquals(requestStatus, status))), heap |-> h]

\* Mutant: !== in place of ===.
isRequestStatus_negated(h, requestStatus, status) ==
    LET r == getRequestStatus(h, requestStatus) IN
    [out  |-> IF r.out.kind = "throw" THEN r.out
              ELSE Return(Bool(~StrictEquals(r.out.value, status))),
     heap |-> r.heap]

isRequestStatus(h, requestStatus, status) ==
    LET r == getRequestStatus(h, requestStatus) IN
    [out  |-> IF r.out.kind = "throw" THEN r.out
              ELSE Return(Bool(StrictEquals(r.out.value, status))),
     heap |-> r.heap]

----------------------------------------------------------------------------
\* State

VARIABLES heap, built, last, earlier

vars == <<heap, built, last, earlier>>

NoCall == [fn |-> "none"]

\* The states the collaborator hands to callers: the three unit variants
\* and references to the error objects it built.
States == UnitStates \cup {Ref(i) : i \in ObjIds}

Init ==
    /\ heap \in [ObjIds -> {[error |-> m] : m \in Messages}]
    /\ built = heap
    /\ last = NoCall
    /\ earlier = NoCall

\* A caller evaluates getRequestStatus(s).
CallGetRequestStatus(s) ==
    LET r == getRequestStatus(heap, s) IN
    /\ heap' = r.heap
    /\ last' = [fn |-> "getRequestStatus", arg |-> s, out |-> r.out]
    /\ earlier' \in {earlier, last}
    /\ UNCHANGED built

\* A caller evaluates isRequestStatus(s, t).
CallIsRequestStatus(s, t) ==
    LET r == isRequestStatus(heap, s, t) IN
    /\ heap' = r.heap
    /\ last' = [fn |-> "isRequestStatus", arg |-> s, tag |-> t, out |-> r.out]
    /\ earlier' \in {earlier, last}
    /\ UNCHANGED built

Next ==
    \/ \E s \in States : CallGetRequestStatus(s)
    \/ \E s \in States, t \in Tags : CallIsRequestStatus(s, t)

Spec == Init /\ [][Next]_vars

----------------------------------------------------------------------------
\* Helpers for the properties

IsGet(c) == c.fn = "getRequestStatus"

IsMatch(c) == c.fn = "isRequestStatus"

IsErrorState(v) == v.type = "object"

True == Return(Bool(TRUE))

False == Return(Bool(FALSE))

\* Two recorded calls of the same function on the same arguments.
SameInput(a, b) ==
    /\ a.fn # "none"
    /\ a.fn = b.fn
    /\ a.arg = b.arg
    /\ IsMatch(a) => a.tag = b.tag

----------------------------------------------------------------------------
\* C1: isRequestStatus(s, t) returns exactly the boolean
\* (getRequestStatus(s) === t), for every legal state s and every tag t.
C1_MatchesIsProjectionEquality ==
    /\ IsMatch(last) =>
          last.out = Return(Bool(getRequestStatus(heap, last.arg).out
                                     = Return(last.tag)))
    /\ (IsMatch(last) /\ IsGet(earlier) /\ last.arg = earlier.arg) =>
          last.out = Return(Bool(earlier.out = Return(last.tag)))

C1_Witness ==
    /\ IsMatch(last) /\ IsErrorState(last.arg)
    /\ last.tag = RequestStatusEnum.ERROR /\ last.out = True

\* C2: for a unit variant s (IDLE, PENDING, SUCCESS) getRequestStatus(s)
\* returns s itself and never ERROR.
C2_UnitIdentity ==
    (IsGet(last) /\ last.arg \in UnitStates) =>
        /\ last.out = Return(last.arg)
        /\ last.out # Return(RequestStatusEnum.ERROR)

C2_Witness ==
    /\ IsGet(last) /\ last.arg = RequestStatusEnum.SUCCESS
    /\ last.out = Return(RequestStatusEnum.SUCCESS)

\* C3: for every message m, the empty one included,
\* getRequestStatus({error: m}) returns ERROR.
C3_ErrorObjectProjectsToError ==
    (IsGet(last) /\ IsErrorState(last.arg)) =>
        last.out = Return(RequestStatusEnum.ERROR)

C3_Witness ==
    /\ IsGet(last) /\ IsErrorState(last.arg)
    /\ built[last.arg.ref].error = ""
    /\ last.out = Return(RequestStatusEnum.ERROR)

\* C4: when isRequestStatus(s, t) returns true, s belongs to the narrowed
\* type: for ERROR an object exposing the error message it was built with,
\* for the other tags the bare unit variant t.
C4_NarrowingSound ==
    (IsMatch(last) /\ last.out = True) =>
        /\ last.arg \in RequestStatus(heap) \cap ExtractRequestStatus(heap, last.tag)
        /\ last.tag = RequestStatusEnum.ERROR =>
              /\ IsErrorState(last.arg)
              /\ "error" \in DOMAIN heap[last.arg.ref]
              /\ heap[last.arg.ref].error \in Messages
              /\ heap[last.arg.ref].error = built[last.arg.ref].error
        /\ last.tag # RequestStatusEnum.ERROR =>
              /\ last.arg \in UnitStates
              /\ last.arg = last.tag

C4_Witness ==
    /\ IsMatch(last) /\ last.out = True
    /\ last.tag = RequestStatusEnum.ERROR
    /\ IsErrorState(last.arg)
    /\ heap[last.arg.ref].error = "timeout"

\* C5: every legal state is classified into exactly one tag: the projection
\* is one of the four tags, and exactly one of the four tags matches.
C5_ExactlyOneTag ==
    /\ IsGet(last) => (last.out.kind = "return" /\ last.out.value \in Tags)
    /\ last.fn # "none" =>
          Cardinality({t \in Tags :
              isRequestStatus(heap, last.arg, t).out = True}) = 1
    /\ (IsMatch(last) /\ IsMatch(earlier) /\ last.arg = earlier.arg
          /\ last.out = True /\ earlier.out = True) => last.tag = earlier.tag

C5_Witness ==
    /\ IsMatch(last) /\ IsMatch(earlier) /\ last.arg = earlier.arg
    /\ IsErrorState(last.arg)
    /\ last.out = True /\ earlier.out = False

\* C6: on legal states and the four tags neither function fails:
\* getRequestStatus completes with a tag, isRequestStatus with a boolean.
C6_Total ==
    /\ IsGet(last) =>
          (last.out.kind = "return" /\ last.out.value \in Tags)
    /\ IsMatch(last) =>
          (last.out.kind = "return" /\ last.out.value.type = "boolean")

C6_Witness ==
    /\ IsMatch(last) /\ last.arg \in UnitStates /\ last.out.kind = "return"
    /\ IsGet(earlier) /\ earlier.arg \in UnitStates /\ earlier.out.kind = "return"

\* C7: a call repeated on the same arguments returns the same result,
\* whatever calls were made in between.
C7_Pure ==
    SameInput(earlier, last) => earlier.out = last.out

C7_Witness ==
    /\ SameInput(earlier, last) /\ IsErrorState(last.arg)
    /\ earlier.out = last.out

\* C8: after any sequence of calls every state is what the collaborator
\* built: same objects, same variant, same message.
C8_StateUnchanged ==
    /\ DOMAIN heap = DOMAIN built
    /\ \A s \in States :
          /\ s \in RequestStatus(heap)
          /\ IsErrorState(s) => heap[s.ref] = built[s.ref]

C8_Witness ==
    /\ IsGet(earlier) /\ IsMatch(last)
    /\ IsErrorState(earlier.arg) /\ earlier.arg = last.arg
    /\ heap[last.arg.ref] = built[last.arg.ref]

\* C9: isRequestStatus differs from the naive test (s === t) exactly on
\* error states compared with ERROR: there the naive test is false and
\* the predicate true; everywhere else the two agree.
C9_DiffersFromNaiveOnlyOnError ==
    IsMatch(last) =>
        IF IsErrorState(last.arg) /\ last.tag = RequestStatusEnum.ERROR
        THEN /\ ~StrictEquals(last.arg, last.tag)
             /\ last.out = True
        ELSE last.out = Return(Bool(StrictEquals(last.arg, last.tag)))

C9_Witness ==
    /\ IsMatch(last) /\ IsErrorState(last.arg)
    /\ last.tag = RequestStatusEnum.ERROR
    /\ ~StrictEquals(last.arg, last.tag) /\ last.out = True
    /\ IsMatch(earlier) /\ earlier.arg = RequestStatusEnum.PENDING
    /\ earlier.tag = RequestStatusEnum.PENDING /\ earlier.out = True

\* C10: the message is opaque: two error states give the same result for
\* the same function and tag, whatever their messages.
C10_MessageOpaque ==
    (/\ earlier.fn # "none" /\ earlier.fn = last.fn
     /\ IsErrorState(earlier.arg) /\ IsErrorState(last.arg)
     /\ IsMatch(last) => earlier.tag = last.tag)
        => earlier.out = last.out

C10_Witness ==
    /\ IsGet(earlier) /\ IsGet(last)
    /\ IsErrorState(earlier.arg) /\ IsErrorState(last.arg)
    /\ built[earlier.arg.ref].error = ""
    /\ built[last.arg.ref].error = "error"
    /\ earlier.out = last.out

====
